---- MODULE Spec2Model ----
(***************************************************************************)
(* Model of server.js, the OTP service: the in-memory otpStore, the code   *)
(* generator, storeOTP / verifyOTP, the three POST handlers and the        *)
(* periodic cleanup timer.  Node runs every callback to completion, so a   *)
(* handler is one action up to its first await; the continuation after the *)
(* await (delivery resolved or rejected) is a second action.               *)
(***************************************************************************)
EXTENDS Integers, Sequences, FiniteSets, TLC

\* ---------------------------------------------------------------- bounds
MaxPeriods == 1      \* clock values reach MaxPeriods * TTL (+ skew)
MaxSkew    == 1      \* milliseconds sampled after a whole TTL period
RandSteps  == 2      \* Math.random() is sampled at k / RandSteps, k < RandSteps
MaxPending == 1      \* send handlers suspended at their await at one time

\* ------------------------------------------------------ program constants
TTL         == 10 * 60 * 1000                                   \* line 41
MaxAttempts == 3                                                \* line 62

\* req.body.email of /send-email-otp and req.body.phone of /send-sms-otp
Recipients(route) == IF route = "send-email-otp" THEN {"a@x.com"} ELSE {"+15550001"}
Identifiers == Recipients("send-email-otp") \cup Recipients("send-sms-otp")
NoIdentifier == ""            \* req.body field absent: falsy
NoOtp == << >>                \* req.body.otp absent: falsy
Routes == {"send-email-otp", "send-sms-otp"}

\* clock values Date.now() is sampled at
Times == {0} \cup {k * TTL + d : k \in 1..MaxPeriods, d \in 0..MaxSkew}

\* ---------------------------------------------------------------- generator
RECURSIVE Digits(_)
\* Number.prototype.toString: the decimal digits, most significant first
Digits(n) == IF n < 10 THEN << n >> ELSE Append(Digits(n \div 10), n % 10)

\* Math.random() * 900000 for the random value num / den, in exact arithmetic:
\* its integer part and the remainder over den (the product is taken in two
\* steps, num * 900 and then * 1000, to stay within the integers of the checker)
Scaled(num, den) ==
    LET q1 == (num * 900) \div den
        r1 == (num * 900) % den
    IN [floor |-> q1 * 1000 + ((r1 * 1000) \div den), rest |-> (r1 * 1000) % den]

\* mutant: Math.round in place of Math.floor
generateOTPAt_Round(num, den) ==
    Digits(100000 + Scaled(num, den).floor + (IF 2 * Scaled(num, den).rest >= den THEN 1 ELSE 0))
\* Math.floor(100000 + Math.random() * 900000).toString(), random = num / den
generateOTPAt(num, den) == Digits(100000 + Scaled(num, den).floor)

\* the generator at the random values the handlers are run with, k / RandSteps
generateOTP(k) == generateOTPAt(k, RandSteps)

RandomValues == 0..(RandSteps - 1)
Codes == {generateOTP(k) : k \in RandomValues}

\* ---------------------------------------------------------------- the Map
\* otpStore is a Map: modelled as the set of its entries [key, otp, expiresAt, attempts]
MapHas(store, k) == \E e \in store : e.key = k
MapGet(store, k) == CHOOSE e \in store : e.key = k
MapDelete(store, k) == {e \in store : e.key # k}
\* mutant: the entry is added without replacing the one stored under the key
MapSet_Append(store, k, v) ==
    store \cup
    {[key |-> k, otp |-> v.otp, expiresAt |-> v.expiresAt, attempts |-> v.attempts]}
MapSet(store, k, v) ==
    {e \in store : e.key # k} \cup
    {[key |-> k, otp |-> v.otp, expiresAt |-> v.expiresAt, attempts |-> v.attempts]}

\* ---------------------------------------------------------------- storeOTP
\* mutant: a re-issue merges into the stored record and keeps its attempts
storeOTP_KeepAttempts(store, t, identifier, otp) ==
    MapSet(store, identifier,
           [otp |-> otp, expiresAt |-> t + TTL,
            attempts |-> IF MapHas(store, identifier)
                         THEN MapGet(store, identifier).attempts ELSE 0])
storeOTP(store, t, identifier, otp) ==
    MapSet(store, identifier, [otp |-> otp, expiresAt |-> t + TTL, attempts |-> 0])

\* ---------------------------------------------------------------- verifyOTP
MsgNotFound  == "OTP not found or expired"
MsgExpired   == "OTP has expired"
MsgLockedOut == "Maximum attempts exceeded"
MsgMismatch  == "Invalid OTP"
MsgSuccess   == "OTP verified successfully"

Result(ok, msg) == [success |-> ok, message |-> msg]

\* mutant: the code is compared before expiry and the cap are checked
verifyOTP_CompareFirst(store, t, identifier, otp) ==
    IF ~MapHas(store, identifier)
    THEN [store |-> store, result |-> Result(FALSE, MsgNotFound)]
    ELSE LET storedData == MapGet(store, identifier) IN
         IF storedData.otp = otp
         THEN [store |-> MapDelete(store, identifier), result |-> Result(TRUE, MsgSuccess)]
         ELSE IF t > storedData.expiresAt
         THEN [store |-> MapDelete(store, identifier), result |-> Result(FALSE, MsgExpired)]
         ELSE IF storedData.attempts >= MaxAttempts
         THEN [store |-> MapDelete(store, identifier), result |-> Result(FALSE, MsgLockedOut)]
         ELSE [store |-> MapSet(store, identifier,
                                [storedData EXCEPT !.attempts = storedData.attempts + 1]),
               result |-> Result(FALSE, MsgMismatch)]
\* mutant: a successful verify leaves the record in the store
verifyOTP_NoConsume(store, t, identifier, otp) ==
    IF ~MapHas(store, identifier)
    THEN [store |-> store, result |-> Result(FALSE, MsgNotFound)]
    ELSE LET storedData == MapGet(store, identifier) IN
         IF t > storedData.expiresAt
         THEN [store |-> MapDelete(store, identifier), result |-> Result(FALSE, MsgExpired)]
         ELSE IF storedData.attempts >= MaxAttempts
         THEN [store |-> MapDelete(store, identifier), result |-> Result(FALSE, MsgLockedOut)]
         ELSE IF storedData.otp # otp
         THEN [store |-> MapSet(store, identifier,
                                [storedData EXCEPT !.attempts = storedData.attempts + 1]),
               result |-> Result(FALSE, MsgMismatch)]
         ELSE [store |-> store, result |-> Result(TRUE, MsgSuccess)]
\* mutant: the cap test is attempts > 3
verifyOTP_CapOffByOne(store, t, identifier, otp) ==
    IF ~MapHas(store, identifier)
    THEN [store |-> store, result |-> Result(FALSE, MsgNotFound)]
    ELSE LET storedData == MapGet(store, identifier) IN
         IF t > storedData.expiresAt
         THEN [store |-> MapDelete(store, identifier), result |-> Result(FALSE, MsgExpired)]
         ELSE IF storedData.attempts > MaxAttempts
         THEN [store |-> MapDelete(store, identifier), result |-> Result(FALSE, MsgLockedOut)]
         ELSE IF storedData.otp # otp
         THEN [store |-> MapSet(store, identifier,
                                [storedData EXCEPT !.attempts = storedData.attempts + 1]),
               result |-> Result(FALSE, MsgMismatch)]
         ELSE [store |-> MapDelete(store, identifier), result |-> Result(TRUE, MsgSuccess)]
\* mutant: the mismatch that reaches the cap deletes the record
verifyOTP_DeleteAtCap(store, t, identifier, otp) ==
    IF ~MapHas(store, identifier)
    THEN [store |-> store, result |-> Result(FALSE, MsgNotFound)]
    ELSE LET storedData == MapGet(store, identifier) IN
         IF t > storedData.expiresAt
         THEN [store |-> MapDelete(store, identifier), result |-> Result(FALSE, MsgExpired)]
         ELSE IF storedData.attempts >= MaxAttempts
         THEN [store |-> MapDelete(store, identifier), result |-> Result(FALSE, MsgLockedOut)]
         ELSE IF storedData.otp # otp
         THEN [store |-> IF storedData.attempts + 1 >= MaxAttempts
                           THEN MapDelete(store, identifier)
                           ELSE MapSet(store, identifier,
                                       [storedData EXCEPT !.attempts = storedData.attempts + 1]),
               result |-> Result(FALSE, MsgMismatch)]
         ELSE [store |-> MapDelete(store, identifier), result |-> Result(TRUE, MsgSuccess)]
\* mutant: an expired record is reported but not deleted
verifyOTP_ExpiredKept(store, t, identifier, otp) ==
    IF ~MapHas(store, identifier)
    THEN [store |-> store, result |-> Result(FALSE, MsgNotFound)]
    ELSE LET storedData == MapGet(store, identifier) IN
         IF t > storedData.expiresAt
         THEN [store |-> store, result |-> Result(FALSE, MsgExpired)]
         ELSE IF storedData.attempts >= MaxAttempts
         THEN [store |-> MapDelete(store, identifier), result |-> Result(FALSE, MsgLockedOut)]
         ELSE IF storedData.otp # otp
         THEN [store |-> MapSet(store, identifier,
                                [storedData EXCEPT !.attempts = storedData.attempts + 1]),
               result |-> Result(FALSE, MsgMismatch)]
         ELSE [store |-> MapDelete(store, identifier), result |-> Result(TRUE, MsgSuccess)]
\* mutant: a mismatch is reported but not counted
verifyOTP_NoCount(store, t, identifier, otp) ==
    IF ~MapHas(store, identifier)
    THEN [store |-> store, result |-> Result(FALSE, MsgNotFound)]
    ELSE LET storedData == MapGet(store, identifier) IN
         IF t > storedData.expiresAt
         THEN [store |-> MapDelete(store, identifier), result |-> Result(FALSE, MsgExpired)]
         ELSE IF storedData.attempts >= MaxAttempts
         THEN [store |-> MapDelete(store, identifier), result |-> Result(FALSE, MsgLockedOut)]
         ELSE IF storedData.otp # otp
         THEN [store |-> store, result |-> Result(FALSE, MsgMismatch)]
         ELSE [store |-> MapDelete(store, identifier), result |-> Result(TRUE, MsgSuccess)]
\* mutant: a successful verify clears the whole Map
verifyOTP_ClearAll(store, t, identifier, otp) ==
    IF ~MapHas(store, identifier)
    THEN [store |-> store, result |-> Result(FALSE, MsgNotFound)]
    ELSE LET storedData == MapGet(store, identifier) IN
         IF t > storedData.expiresAt
         THEN [store |-> MapDelete(store, identifier), result |-> Result(FALSE, MsgExpired)]
         ELSE IF storedData.attempts >= MaxAttempts
         THEN [store |-> MapDelete(store, identifier), result |-> Result(FALSE, MsgLockedOut)]
         ELSE IF storedData.otp # otp
         THEN [store |-> MapSet(store, identifier,
                                [storedData EXCEPT !.attempts = storedData.attempts + 1]),
               result |-> Result(FALSE, MsgMismatch)]
         ELSE [store |-> {}, result |-> Result(TRUE, MsgSuccess)]
\* mutant: no expiry test, expired records are left to the cleanup timer
verifyOTP_NoExpiry(store, t, identifier, otp) ==
    IF ~MapHas(store, identifier)
    THEN [store |-> store, result |-> Result(FALSE, MsgNotFound)]
    ELSE LET storedData == MapGet(store, identifier) IN
         IF storedData.attempts >= MaxAttempts
         THEN [store |-> MapDelete(store, identifier), result |-> Result(FALSE, MsgLockedOut)]
         ELSE IF storedData.otp # otp
         THEN [store |-> MapSet(store, identifier,
                                [storedData EXCEPT !.attempts = storedData.attempts + 1]),
               result |-> Result(FALSE, MsgMismatch)]
         ELSE [store |-> MapDelete(store, identifier), result |-> Result(TRUE, MsgSuccess)]
\* returns the store after the call and the object the call returns
verifyOTP(store, t, identifier, otp) ==
    IF ~MapHas(store, identifier)
    THEN [store |-> store, result |-> Result(FALSE, MsgNotFound)]
    ELSE LET storedData == MapGet(store, identifier) IN
         IF t > storedData.expiresAt
         THEN [store |-> MapDelete(store, identifier), result |-> Result(FALSE, MsgExpired)]
         ELSE IF storedData.attempts >= MaxAttempts
         THEN [store |-> MapDelete(store, identifier), result |-> Result(FALSE, MsgLockedOut)]
         ELSE IF storedData.otp # otp
         THEN [store |-> MapSet(store, identifier,
                                [storedData EXCEPT !.attempts = storedData.attempts + 1]),
               result |-> Result(FALSE, MsgMismatch)]
         ELSE [store |-> MapDelete(store, identifier), result |-> Result(TRUE, MsgSuccess)]

\* ---------------------------------------------------------------- cleanup timer
\* mutant: the test is inverted, the unexpired records are the ones removed
cleanup_Reversed(store, t) == {e \in store : t > e.expiresAt}
\* mutant: a run stops after the first record it deletes
cleanup_OnePerRun(store, t) ==
    LET expired == {e \in store : t > e.expiresAt} IN
    IF expired = {} THEN store ELSE store \ {CHOOSE e \in expired : TRUE}
\* mutant: the test is now >= expiresAt
cleanup_AtBoundary(store, t) == {e \in store : ~(t >= e.expiresAt)}
cleanup(store, t) == {e \in store : ~(t > e.expiresAt)}

\* ---------------------------------------------------------------- state
VARIABLES
    otpStore,   \* the Map of line 17
    now,        \* Date.now()
    pending,    \* deliveries awaited by suspended send handlers
    response,   \* the last response a handler sent, with the request it answers
    issued,     \* history: the code of the latest storeOTP per identifier
    consumed,   \* history: identifiers whose latest code a verify has accepted
    sweepLog,   \* history: the identifiers removed by each of the latest cleanup
                \* runs that no other step separates, oldest first
    shadow      \* history: the store, and the result of the latest verify, of
                \* the same run of requests with the cleanup timer never firing

vars == << otpStore, now, pending, response, issued, consumed, sweepLog, shadow >>
hist == << sweepLog, shadow >>

Response(route, identifier, otp, status, ok, msg) ==
    [route |-> route, identifier |-> identifier, otp |-> otp,
     status |-> status, success |-> ok, message |-> msg]

NoResponse == Response("none", NoIdentifier, NoOtp, 0, FALSE, "")

\* !x for a string field of req.body, and for the otp field
Falsy(x) == x = NoIdentifier
FalsyOtp(x) == x = NoOtp

Init ==
    /\ otpStore = {}
    /\ now = 0
    /\ pending = {}
    /\ response = NoResponse
    /\ issued = [i \in Identifiers |-> NoOtp]
    /\ consumed = {}
    /\ sweepLog = << >>
    /\ shadow = [store |-> {}, result |-> Result(FALSE, "")]

\* the clock moves forward
Tick ==
    /\ \E t \in Times : t > now /\ now' = t
    /\ UNCHANGED << otpStore, pending, response, issued, consumed >>

MissingMessage(route) ==
    IF route = "send-email-otp" THEN "Email is required" ELSE "Phone number is required"
SentMessage(route) ==
    IF route = "send-email-otp" THEN "OTP sent successfully to your email"
    ELSE "OTP sent successfully to your phone"
FailedMessage(route) ==
    IF route = "send-email-otp" THEN "Failed to send OTP email" ELSE "Failed to send OTP SMS"

\* POST /send-email-otp and POST /send-sms-otp with the required field absent
SendOtpMissing(route) ==
    /\ response' = Response(route, NoIdentifier, NoOtp, 400, FALSE, MissingMessage(route))
    /\ UNCHANGED << otpStore, now, pending, issued, consumed >>

\* POST /send-email-otp and POST /send-sms-otp up to the await of the
\* delivery, otp being the code generateOTP has returned
SendOtpWith(route, to, otp) ==
    /\ ~Falsy(to)
    /\ Cardinality(pending) < MaxPending
    /\ otpStore' = storeOTP(otpStore, now, to, otp)
    /\ pending' = pending \cup {[route |-> route, to |-> to, otp |-> otp]}
    /\ issued' = [issued EXCEPT ![to] = otp]
    /\ consumed' = consumed \ {to}
    /\ UNCHANGED << now, response >>

SendOtp(route, to, k) == SendOtpWith(route, to, generateOTP(k))

\* the awaited delivery resolves: the handler answers 200
DeliveryResolved(p) ==
    /\ p \in pending
    /\ pending' = pending \ {p}
    /\ response' = Response(p.route, p.to, NoOtp, 200, TRUE, SentMessage(p.route))
    /\ UNCHANGED << otpStore, now, issued, consumed >>

\* mutant: the catch block also takes the stored record back
DeliveryRejected_Rollback(p) ==
    /\ p \in pending
    /\ pending' = pending \ {p}
    /\ response' = Response(p.route, p.to, NoOtp, 500, FALSE, FailedMessage(p.route))
    /\ otpStore' = MapDelete(otpStore, p.to)
    /\ UNCHANGED << now, issued, consumed >>
\* the awaited delivery rejects: the catch block answers 500
DeliveryRejected(p) ==
    /\ p \in pending
    /\ pending' = pending \ {p}
    /\ response' = Response(p.route, p.to, NoOtp, 500, FALSE, FailedMessage(p.route))
    /\ UNCHANGED << otpStore, now, issued, consumed >>

\* mutant: the handler calls verifyOTP without testing its fields
VerifyOtp_NoValidation(identifier, otp) ==
    LET v == verifyOTP(otpStore, now, identifier, otp) IN
    /\ otpStore' = v.store
    /\ response' = Response("verify-otp", identifier, otp,
                            IF v.result.success THEN 200 ELSE 400,
                            v.result.success, v.result.message)
    /\ consumed' = IF v.result.success THEN consumed \cup {identifier} ELSE consumed
    /\ UNCHANGED << now, pending, issued >>
\* POST /verify-otp
VerifyOtp(identifier, otp) ==
    IF Falsy(identifier) \/ FalsyOtp(otp)
    THEN /\ response' = Response("verify-otp", identifier, otp, 400, FALSE,
                                 "Identifier and OTP are required")
         /\ UNCHANGED << otpStore, now, pending, issued, consumed >>
    ELSE LET v == verifyOTP(otpStore, now, identifier, otp) IN
         /\ otpStore' = v.store
         /\ response' = Response("verify-otp", identifier, otp,
                                 IF v.result.success THEN 200 ELSE 400,
                                 v.result.success, v.result.message)
         /\ consumed' = IF v.result.success THEN consumed \cup {identifier} ELSE consumed
         /\ UNCHANGED << now, pending, issued >>

\* the setInterval callback
Cleanup ==
    /\ otpStore' = cleanup(otpStore, now)
    /\ UNCHANGED << now, pending, response, issued, consumed >>

\* the program; the two histories of the cleanup timer are not kept
Next ==
    \/ Tick /\ UNCHANGED hist
    \/ \E route \in Routes : SendOtpMissing(route) /\ UNCHANGED hist
    \/ \E route \in Routes : \E to \in Recipients(route), k \in RandomValues :
          SendOtp(route, to, k) /\ UNCHANGED hist
    \/ \E p \in pending : DeliveryResolved(p) /\ UNCHANGED hist
    \/ \E p \in pending : DeliveryRejected(p) /\ UNCHANGED hist
    \/ \E identifier \in Identifiers \cup {NoIdentifier}, otp \in Codes \cup {NoOtp} :
          VerifyOtp(identifier, otp) /\ UNCHANGED hist
    \/ Cleanup /\ UNCHANGED hist

Spec == Init /\ [][Next]_vars

\* ---------------------------------------------------------------- histories
MaxLog == 2          \* cleanup runs the log remembers

\* the log after one more cleanup run
Logged(log, removed) ==
    LET l == Append(log, removed) IN
    IF Len(l) > MaxLog THEN Tail(l) ELSE l

\* the run without the cleanup timer: storeOTP and verifyOTP on its own store
ShadowIssue(to, k) ==
    shadow' = [shadow EXCEPT !.store = storeOTP(shadow.store, now, to, generateOTP(k))]
ShadowVerify(identifier, otp) ==
    shadow' = IF Falsy(identifier) \/ FalsyOtp(otp)
              THEN [shadow EXCEPT !.result = Result(FALSE, "Identifier and OTP are required")]
              ELSE LET v == verifyOTP(shadow.store, now, identifier, otp) IN
                   [store |-> v.store, result |-> v.result]

\* the cleanup run, logged
CleanupLogged ==
    /\ Cleanup
    /\ sweepLog' = Logged(sweepLog, {e.key : e \in otpStore \ otpStore'})
    /\ UNCHANGED shadow

\* the program with its cleanup runs logged
NextSweep ==
    \/ Tick /\ sweepLog' = << >> /\ UNCHANGED shadow
    \/ \E route \in Routes : SendOtpMissing(route) /\ sweepLog' = << >> /\ UNCHANGED shadow
    \/ \E route \in Routes : \E to \in Recipients(route), k \in RandomValues :
          SendOtp(route, to, k) /\ sweepLog' = << >> /\ UNCHANGED shadow
    \/ \E p \in pending : DeliveryResolved(p) /\ sweepLog' = << >> /\ UNCHANGED shadow
    \/ \E p \in pending : DeliveryRejected(p) /\ sweepLog' = << >> /\ UNCHANGED shadow
    \/ \E identifier \in Identifiers \cup {NoIdentifier}, otp \in Codes \cup {NoOtp} :
          VerifyOtp(identifier, otp) /\ sweepLog' = << >> /\ UNCHANGED shadow
    \/ CleanupLogged

SpecSweep == Init /\ [][NextSweep]_vars

\* the program with the run without the cleanup timer kept beside it
NextShadow ==
    \/ Tick /\ UNCHANGED hist
    \/ \E route \in Routes : SendOtpMissing(route) /\ UNCHANGED hist
    \/ \E route \in Routes : \E to \in Recipients(route), k \in RandomValues :
          SendOtp(route, to, k) /\ ShadowIssue(to, k) /\ UNCHANGED sweepLog
    \/ \E p \in pending : DeliveryResolved(p) /\ UNCHANGED hist
    \/ \E p \in pending : DeliveryRejected(p) /\ UNCHANGED hist
    \/ \E identifier \in Identifiers \cup {NoIdentifier}, otp \in Codes \cup {NoOtp} :
          VerifyOtp(identifier, otp) /\ ShadowVerify(identifier, otp) /\ UNCHANGED sweepLog
    \/ Cleanup /\ UNCHANGED hist

SpecShadow == Init /\ [][NextShadow]_vars

\* the generator under the send handlers alone, Math.random() sampled finely
\* at both ends of [0, 1) and in its middle
GenDen     == 2000000   \* Math.random() is sampled at num / GenDen
MaxGenSkew == 2         \* samples taken next to 0 and next to 1
GenSamples ==
    (0..MaxGenSkew) \cup {GenDen \div 2} \cup ((GenDen - 1 - MaxGenSkew)..(GenDen - 1))

NextGen ==
    \/ \E route \in Routes : \E to \in Recipients(route), num \in GenSamples :
          SendOtpWith(route, to, generateOTPAt(num, GenDen)) /\ UNCHANGED hist
    \/ \E p \in pending : DeliveryResolved(p) /\ UNCHANGED hist
    \/ \E p \in pending : DeliveryRejected(p) /\ UNCHANGED hist

SpecGen == Init /\ [][NextGen]_vars

\* the program with the clock advancing and the cleanup timer firing for ever
SpecLive == Spec /\ WF_vars(Tick /\ UNCHANGED hist) /\ WF_vars(Cleanup /\ UNCHANGED hist)

TypeOK ==
    /\ now \in Times
    /\ \A e \in otpStore : e.key \in Identifiers /\ e.otp \in Codes

\* ---------------------------------------------------------------- properties
Entries(store, k) == {e \in store : e.key = k}
Live(store, t, k) ==
    /\ MapHas(store, k)
    /\ t <= MapGet(store, k).expiresAt
    /\ MapGet(store, k).attempts < MaxAttempts
VerifyAnswered(k, msg) ==
    /\ response.route = "verify-otp"
    /\ response.identifier = k
    /\ response.message = msg

\* C1: verifyOTP answers by the first condition that holds, in the order
\* no record, expired, attempts at the cap, code differs, otherwise success;
\* it succeeds exactly when a record exists, is unexpired, is under the cap
\* and holds the submitted code.
C1_VerifyOrder ==
    [][\A id \in Identifiers, c \in Codes :
         VerifyOtp(id, c) =>
           /\ (response'.message = MsgNotFound) <=> ~MapHas(otpStore, id)
           /\ (response'.message = MsgExpired) <=>
                  (MapHas(otpStore, id) /\ now > MapGet(otpStore, id).expiresAt)
           /\ (response'.message = MsgLockedOut) <=>
                  (/\ MapHas(otpStore, id)
                   /\ now <= MapGet(otpStore, id).expiresAt
                   /\ MapGet(otpStore, id).attempts >= MaxAttempts)
           /\ (response'.message = MsgMismatch) <=>
                  (Live(otpStore, now, id) /\ MapGet(otpStore, id).otp # c)
           /\ (response'.message = MsgSuccess) <=>
                  (Live(otpStore, now, id) /\ MapGet(otpStore, id).otp = c)
           /\ response'.success <=>
                  (Live(otpStore, now, id) /\ MapGet(otpStore, id).otp = c)
           /\ response'.message \in
                  {MsgNotFound, MsgExpired, MsgLockedOut, MsgMismatch, MsgSuccess}]_vars

\* a verify has succeeded and consumed the code of its identifier
C1_Witness ==
    \E id \in Identifiers :
        /\ VerifyAnswered(id, MsgSuccess)
        /\ response.success
        /\ response.otp = issued[id]
        /\ id \in consumed
        /\ now > 0

\* C2: a verify with the issued code against a live record succeeds and
\* removes the record; until the identifier is issued a new code, every later
\* verify for it with that code answers NotFound.
C2_UsableOnce ==
    [][\A id \in Identifiers, c \in Codes :
         VerifyOtp(id, c) =>
           /\ (Live(otpStore, now, id) /\ c = issued[id]) =>
                  (response'.message = MsgSuccess /\ ~MapHas(otpStore', id))
           /\ (id \in consumed /\ c = issued[id]) =>
                  (response'.message = MsgNotFound /\ otpStore' = otpStore)]_vars

\* the consumed code was submitted again and answered NotFound
C2_Witness ==
    \E id \in Identifiers :
        /\ id \in consumed
        /\ VerifyAnswered(id, MsgNotFound)
        /\ response.otp = issued[id]
        /\ ~MapHas(otpStore, id)

\* C3: a verify against an unexpired record with attempts = 3 answers
\* LockedOut whatever code it carries, never succeeds, and deletes the record.
C3_LockedOutAtCap ==
    [][\A id \in Identifiers, c \in Codes :
         (/\ VerifyOtp(id, c)
          /\ MapHas(otpStore, id)
          /\ MapGet(otpStore, id).attempts = MaxAttempts
          /\ now <= MapGet(otpStore, id).expiresAt) =>
             /\ response'.message = MsgLockedOut
             /\ ~response'.success
             /\ response'.status = 400
             /\ ~MapHas(otpStore', id)]_vars

\* the issued code was submitted after three recorded mismatches and refused
C3_Witness ==
    \E id \in Identifiers :
        /\ VerifyAnswered(id, MsgLockedOut)
        /\ response.otp = issued[id]
        /\ id \notin consumed
        /\ ~MapHas(otpStore, id)

\* C4 as stated: the third consecutive mismatch against an unexpired record
\* answers Mismatch and leaves no record for the identifier.
C4_ThirdMismatchDeletes ==
    [][\A id \in Identifiers, c \in Codes :
         (/\ VerifyOtp(id, c)
          /\ MapHas(otpStore, id)
          /\ MapGet(otpStore, id).attempts = MaxAttempts - 1
          /\ now <= MapGet(otpStore, id).expiresAt
          /\ MapGet(otpStore, id).otp # c) =>
             /\ response'.message = MsgMismatch
             /\ ~MapHas(otpStore', id)]_vars

\* C4 amended: the third consecutive mismatch against an unexpired record
\* answers Mismatch and keeps the record, with attempts = 3 and its code and
\* expiresAt unchanged; the record is deleted by the next verify that finds it
\* (LockedOut, or Expired once the clock has passed expiresAt).
C4_ThirdMismatchKeeps ==
    [][\A id \in Identifiers, c \in Codes :
         /\ (/\ VerifyOtp(id, c)
             /\ MapHas(otpStore, id)
             /\ MapGet(otpStore, id).attempts = MaxAttempts - 1
             /\ now <= MapGet(otpStore, id).expiresAt
             /\ MapGet(otpStore, id).otp # c) =>
                /\ response'.message = MsgMismatch
                /\ Entries(otpStore', id) =
                      {[MapGet(otpStore, id) EXCEPT !.attempts = MaxAttempts]}
         /\ (/\ VerifyOtp(id, c)
             /\ MapHas(otpStore, id)
             /\ MapGet(otpStore, id).attempts = MaxAttempts) =>
                /\ response'.message \in {MsgLockedOut, MsgExpired}
                /\ ~MapHas(otpStore', id)]_vars

\* the third mismatch has been answered and the record is still stored
C4_Witness ==
    \E id \in Identifiers :
        /\ VerifyAnswered(id, MsgMismatch)
        /\ MapHas(otpStore, id)
        /\ MapGet(otpStore, id).attempts = MaxAttempts
        /\ MapGet(otpStore, id).otp # response.otp

\* C5: a verify against a record with now > expiresAt answers Expired,
\* whatever the submitted code and the attempts count, and deletes the record.
C5_ExpiredOnAccess ==
    [][\A id \in Identifiers, c \in Codes :
         (/\ VerifyOtp(id, c)
          /\ MapHas(otpStore, id)
          /\ now > MapGet(otpStore, id).expiresAt) =>
             /\ response'.message = MsgExpired
             /\ ~response'.success
             /\ ~MapHas(otpStore', id)]_vars

\* the issued code was submitted after its expiry and refused
C5_Witness ==
    \E id \in Identifiers :
        /\ VerifyAnswered(id, MsgExpired)
        /\ response.otp = issued[id]
        /\ id \notin consumed
        /\ ~MapHas(otpStore, id)
        /\ now > TTL

\* C6: the store never holds two records for one identifier; an issue leaves
\* exactly one record for its identifier, holding the code just generated; a
\* verify carrying a code other than the latest one issued never succeeds.
C6_OneRecordPerIdentifier ==
    [][/\ \A id \in Identifiers :
            /\ Cardinality(Entries(otpStore, id)) <= 1
            /\ Cardinality(Entries(otpStore', id)) <= 1
       /\ \A route \in Routes : \A to \in Recipients(route), k \in RandomValues :
            SendOtp(route, to, k) =>
               /\ Cardinality(Entries(otpStore', to)) = 1
               /\ \A e \in Entries(otpStore', to) : e.otp = generateOTP(k)
       /\ \A id \in Identifiers, c \in Codes :
            (VerifyOtp(id, c) /\ c # issued[id]) => ~response'.success]_vars

\* a record holds the latest code and a verify with the other code was refused
C6_Witness ==
    \E id \in Identifiers :
        /\ Cardinality(Entries(otpStore, id)) = 1
        /\ MapGet(otpStore, id).otp = issued[id]
        /\ MapGet(otpStore, id).attempts = 1
        /\ VerifyAnswered(id, MsgMismatch)
        /\ response.otp \in Codes \ {issued[id]}

\* C7: with send handlers suspended at their await and verify requests and
\* cleanup runs interleaved in any order, at most one verify succeeds for one
\* issued record: a verify succeeds only for an identifier whose latest code
\* has not been consumed, and a consumed identifier has no record.
C7_AtMostOneSuccess ==
    [][/\ \A id \in Identifiers, c \in Codes :
            (VerifyOtp(id, c) /\ response'.success) =>
               /\ id \notin consumed
               /\ id \in consumed'
               /\ MapHas(otpStore, id)
       /\ \A id \in consumed' : ~MapHas(otpStore', id)]_vars

\* while the send handler is still awaiting its delivery one verify consumed
\* the code and a second verify with the same code was answered NotFound
C7_Witness ==
    \E p \in pending :
        /\ p.to \in consumed
        /\ p.otp = issued[p.to]
        /\ VerifyAnswered(p.to, MsgNotFound)
        /\ response.otp = p.otp

\* C8: a verify answers Mismatch only against a live record with another
\* code, and then adds exactly 1 to attempts and keeps code and expiresAt;
\* the attempts of a record that stays stored change in no other step, save
\* for an issue that replaces the record.
C8_AttemptsOnlyOnMismatch ==
    [][\A id \in Identifiers :
         /\ \A c \in Codes :
              (VerifyOtp(id, c) /\ response'.message = MsgMismatch) =>
                 /\ Live(otpStore, now, id)
                 /\ MapGet(otpStore, id).otp # c
                 /\ Entries(otpStore', id) =
                       {[MapGet(otpStore, id) EXCEPT
                            !.attempts = MapGet(otpStore, id).attempts + 1]}
         /\ \A c \in Codes :
              (VerifyOtp(id, c) /\ Live(otpStore, now, id) /\ MapGet(otpStore, id).otp # c) =>
                 /\ response'.message = MsgMismatch
                 /\ Entries(otpStore', id) =
                       {[MapGet(otpStore, id) EXCEPT
                            !.attempts = MapGet(otpStore, id).attempts + 1]}
         /\ (/\ MapHas(otpStore, id)
             /\ MapHas(otpStore', id)
             /\ MapGet(otpStore', id).attempts # MapGet(otpStore, id).attempts) =>
                \/ \E c \in Codes : VerifyOtp(id, c) /\ response'.message = MsgMismatch
                \/ \E route \in Routes, k \in RandomValues : SendOtp(route, id, k)
         /\ (/\ MapHas(otpStore', id)
             /\ MapGet(otpStore', id).attempts >
                   (IF MapHas(otpStore, id) THEN MapGet(otpStore, id).attempts ELSE 0)) =>
                \E c \in Codes : VerifyOtp(id, c) /\ response'.message = MsgMismatch]_vars

\* at the boundary now = expiresAt a second mismatch was counted, the record kept
C8_Witness ==
    \E id \in Identifiers :
        /\ VerifyAnswered(id, MsgMismatch)
        /\ MapHas(otpStore, id)
        /\ MapGet(otpStore, id).attempts = 2
        /\ MapGet(otpStore, id).otp = issued[id]
        /\ response.otp # issued[id]
        /\ MapGet(otpStore, id).expiresAt = TTL
        /\ now = TTL

\* C9: an issue, whatever record its identifier had, leaves for it exactly
\* the record [code generated, expiresAt = now + 10 minutes, attempts = 0].
C9_IssueResets ==
    [][\A route \in Routes : \A to \in Recipients(route), k \in RandomValues :
         SendOtp(route, to, k) =>
            /\ Entries(otpStore', to) =
                  {[key |-> to, otp |-> generateOTP(k),
                    expiresAt |-> now + 10 * 60 * 1000, attempts |-> 0]}
            /\ Live(otpStore', now', to)]_vars

\* a code was re-issued after mismatches had been counted against the
\* identifier's previous record, later than the first clock value
C9_Witness ==
    \E p \in pending :
        /\ VerifyAnswered(p.to, MsgMismatch)
        /\ MapHas(otpStore, p.to)
        /\ MapGet(otpStore, p.to).attempts = 0
        /\ MapGet(otpStore, p.to).otp = p.otp
        /\ MapGet(otpStore, p.to).expiresAt = now + TTL
        /\ now > 0

\* C10: an issue or a verify for one identifier leaves the entries of every
\* other identifier as they were, and a verify for an identifier succeeds
\* only with the code issued for that identifier.
C10_IdentifiersIsolated ==
    [][\A a \in Identifiers :
         /\ ((\E route \in Routes, k \in RandomValues : SendOtp(route, a, k))
             \/ (\E c \in Codes \cup {NoOtp} : VerifyOtp(a, c))) =>
                \A b \in Identifiers \ {a} :
                   /\ Entries(otpStore', b) = Entries(otpStore, b)
                   /\ issued'[b] = issued[b]
         /\ \A c \in Codes :
              (VerifyOtp(a, c) /\ response'.success) => c = issued[a]]_vars

\* two identifiers were issued different codes; a verify for one succeeded
\* with its own code while the record of the other stayed stored
C10_Witness ==
    \E a \in Identifiers : \E b \in Identifiers \ {a} :
        /\ MapHas(otpStore, b)
        /\ issued[b] # issued[a]
        /\ MapGet(otpStore, b).otp = issued[b]
        /\ VerifyAnswered(a, MsgSuccess)
        /\ response.otp = issued[a]
        /\ a \in consumed

\* C14: a request with a required field absent is answered 400 with
\* success false; the store and the pending deliveries stay as they were.
C14_MissingInputRejected ==
    [][/\ \A route \in Routes :
            SendOtpMissing(route) =>
               /\ response'.status = 400
               /\ ~response'.success
               /\ response'.message = MissingMessage(route)
               /\ otpStore' = otpStore
               /\ pending' = pending
       /\ \A id \in Identifiers \cup {NoIdentifier}, c \in Codes \cup {NoOtp} :
            (VerifyOtp(id, c) /\ (id = NoIdentifier \/ c = NoOtp)) =>
               /\ response'.status = 400
               /\ ~response'.success
               /\ response'.message = "Identifier and OTP are required"
               /\ otpStore' = otpStore
               /\ pending' = pending]_vars

\* a verify without otp was refused for an identifier that holds a record
\* against which nothing has been counted
C14_Witness ==
    /\ response.route = "verify-otp"
    /\ response.status = 400
    /\ response.message = "Identifier and OTP are required"
    /\ response.identifier \in Identifiers
    /\ response.otp = NoOtp
    /\ MapHas(otpStore, response.identifier)
    /\ MapGet(otpStore, response.identifier).attempts = 0

\* C16: a send handler stores the record before it awaits the delivery and
\* answers nothing yet; when the delivery fails it answers 500 with success
\* false and leaves the store as it is, as it does when the delivery
\* succeeds; a verify with the stored code against the live record succeeds
\* whether the delivery is pending, failed or done.
C16_StoredBeforeDelivery ==
    [][/\ \A route \in Routes : \A to \in Recipients(route), k \in RandomValues :
            SendOtp(route, to, k) =>
               /\ Live(otpStore', now', to)
               /\ MapGet(otpStore', to).otp = generateOTP(k)
               /\ [route |-> route, to |-> to, otp |-> generateOTP(k)] \in pending'
               /\ response' = response
       /\ \A p \in pending :
            DeliveryRejected(p) =>
               /\ response'.status = 500
               /\ ~response'.success
               /\ response'.message = FailedMessage(p.route)
               /\ otpStore' = otpStore
       /\ \A p \in pending : DeliveryResolved(p) => otpStore' = otpStore
       /\ \A id \in Identifiers, c \in Codes :
            (VerifyOtp(id, c) /\ Live(otpStore, now, id) /\ MapGet(otpStore, id).otp = c) =>
               response'.success]_vars

\* the delivery failed, no send has started since, and the record the
\* handler stored is still live with the code it generated
C16_Witness ==
    /\ response.status = 500
    /\ response.route \in Routes
    /\ pending = {}
    /\ Live(otpStore, now, response.identifier)
    /\ MapGet(otpStore, response.identifier).otp = issued[response.identifier]
    /\ response.identifier \notin consumed

\* C18: every stored record has 0 <= attempts <= 3.
C18_AttemptsBounded ==
    \A e \in otpStore : e.attempts >= 0 /\ e.attempts <= MaxAttempts

\* a record has reached the cap and is still stored and unexpired
C18_Witness ==
    \E e \in otpStore :
        /\ e.attempts = MaxAttempts
        /\ now <= e.expiresAt
        /\ e.otp = issued[e.key]

\* C11: a cleanup run at clock value now removes the records with
\* expiresAt < now and no other: the store after it is exactly the set of the
\* records that had expiresAt >= now, each unchanged.
C11_SweepRemovesExpired ==
    [][CleanupLogged =>
         /\ otpStore' = {e \in otpStore : e.expiresAt >= now}
         /\ \A e \in otpStore : e.expiresAt < now => ~MapHas(otpStore', e.key)
         /\ \A e \in otpStore : e.expiresAt >= now => e \in otpStore']_vars

\* the latest step was a cleanup run that removed one identifier's record
\* and kept the record of the other, stored with expiresAt >= now
C11_Witness ==
    /\ Len(sweepLog) = 1
    /\ sweepLog[1] # {}
    /\ \A id \in sweepLog[1] : ~MapHas(otpStore, id)
    /\ \E e \in otpStore : e.expiresAt >= now /\ e.attempts > 0

\* C12: a cleanup run that follows a cleanup run, with no other step and no
\* clock change between them, removes no record and leaves the store as the
\* first run left it.
C12_SweepIdempotent ==
    [][(CleanupLogged /\ Len(sweepLog) >= 1) =>
          /\ otpStore' = otpStore
          /\ sweepLog'[Len(sweepLog')] = {}]_vars

\* two cleanup runs in a row: the first removed records, the second none
C12_Witness ==
    /\ Len(sweepLog) = 2
    /\ sweepLog[1] # {}
    /\ sweepLog[2] = {}
    /\ \A id \in sweepLog[1] : ~MapHas(otpStore, id)

\* C13: every verify succeeds in the run with the cleanup timer exactly when
\* it succeeds in the same run of issues, verifies and clock advances without
\* the timer.
C13_SweeperIrrelevant ==
    response.route = "verify-otp" => (response.success <=> shadow.result.success)

\* the two runs have answered the same verify differently, NotFound after a
\* cleanup run and Expired without it, and neither with success
C13_Witness ==
    /\ response.route = "verify-otp"
    /\ response.message = MsgNotFound
    /\ shadow.result.message = MsgExpired
    /\ response.otp = issued[response.identifier]
    /\ ~response.success

\* C19: a cleanup run removes a record exactly when now > expiresAt, which is
\* exactly when a verify at that clock value answers Expired for it; a record
\* a verify with its code would accept at that clock value is kept, also at
\* now = expiresAt.
C19_SweeperAgreesWithVerifier ==
    [][CleanupLogged =>
         \A e \in otpStore :
            /\ (e \notin otpStore') <=> (now > e.expiresAt)
            /\ (e \notin otpStore') <=>
                  (verifyOTP(otpStore, now, e.key, e.otp).result.message = MsgExpired)
            /\ verifyOTP(otpStore, now, e.key, e.otp).result.success => e \in otpStore'
            /\ now = e.expiresAt => e \in otpStore']_vars

\* a cleanup run has just kept a record at the boundary now = expiresAt that
\* a verify with its code would accept
C19_Witness ==
    /\ Len(sweepLog) >= 1
    /\ \E e \in otpStore :
          /\ e.expiresAt = now
          /\ verifyOTP(otpStore, now, e.key, e.otp).result.success

\* the last clock value of the model, and the expiry times the clock passes
MaxTime == CHOOSE t \in Times : \A u \in Times : u <= t
Horizon == {x \in {t + TTL : t \in Times} : x < MaxTime}
StoredUntil(id, x) == \E e \in otpStore : e.key = id /\ e.expiresAt = x

\* C17: with the clock advancing and the cleanup timer firing for ever, every
\* record whose expiresAt the clock passes is eventually out of the store,
\* whether or not a verify is ever made for its identifier.
C17_RecordEventuallyLeaves ==
    \A id \in Identifiers : \A x \in Horizon :
        StoredUntil(id, x) ~> ~StoredUntil(id, x)

\* no request was ever answered, so no verify was made, and the record
\* issued for the identifier is gone after its expiry: the timer removed it
C17_Witness ==
    \E id \in Identifiers :
        /\ response = NoResponse
        /\ issued[id] # NoOtp
        /\ ~MapHas(otpStore, id)
        /\ id \notin consumed
        /\ now > TTL

RECURSIVE Value(_)
\* the number a string of decimal digits denotes
Value(ds) == IF ds = << >> THEN 0 ELSE 10 * Value(SubSeq(ds, 1, Len(ds) - 1)) + ds[Len(ds)]

SixDigits(ds) ==
    /\ Len(ds) = 6
    /\ \A i \in 1..6 : ds[i] \in 0..9
    /\ ds[1] # 0
    /\ Value(ds) >= 100000
    /\ Value(ds) <= 999999

\* C15: every code generateOTP returns is a string of exactly 6 decimal
\* digits, its first digit not 0, denoting a number in [100000, 999999].
C15_SixDigitCode ==
    /\ \A id \in Identifiers : issued[id] # NoOtp => SixDigits(issued[id])
    /\ \A e \in otpStore : SixDigits(e.otp)
    /\ \A p \in pending : SixDigits(p.otp)

\* both ends of the range have been generated: 100000 from the random value
\* 0 and 999999 from the random value next to 1
C15_Witness ==
    \E a \in Identifiers : \E b \in Identifiers \ {a} :
        /\ issued[a] = << 1, 0, 0, 0, 0, 0 >>
        /\ issued[b] = << 9, 9, 9, 9, 9, 9 >>
        /\ MapHas(otpStore, a)
        /\ MapHas(otpStore, b)
====
